---- MODULE Spec2Model ----
(***************************************************************************)
(* Model of lbrynet/core/server/BlobRequestHandler.py: one                 *)
(* BlobRequestHandler serving one peer connection.  Deferred callback      *)
(* chains are modelled by the position (pc) of every query batch and by    *)
(* the state of every FileSender transfer; the storage, strategy, wallet   *)
(* and transport collaborators are nondeterministic environments.          *)
(***************************************************************************)
EXTENDS Integers, Sequences, FiniteSets, TLC

\* ---------------------------------------------------------------- bounds
MaxBatches == 2      \* handle_queries calls on the connection
MaxSends == 2        \* send_file calls (FileSender transfers started)
MaxCalls == 3        \* handle_queries and send_file calls together

\* ------------------------------------------------------ environment data
Blobs == {"X", "Y"}
Length == [b \in Blobs |-> IF b = "X" THEN 2 ELSE 1]   \* blob.length, in chunks
Rates == {1, 2}                                        \* offered rates
AvailRequests == {{"X", "Y"}}                          \* 'requested_blobs' payloads
Completed == {"X"}                                     \* blobs the storage holds complete
Errs == {"e1", "e2"}                                   \* reasons handed to cancel_send

\* Python None / a present value
None == <<>>
Some(x) == <<x>>
Val(o) == o[1]

VARIABLES
    blob_data_payment_rate,  \* None or Some(rate)
    currently_uploading,     \* None or Some(blob)
    read_handle,             \* None or Some(index into handles)
    file_sender,             \* None or Some(index into senders)
    blob_bytes_uploaded,     \* the byte counter
    blobs_requested,         \* self._blobs_requested
    handles,                 \* every handle returned by blob.open_for_reading
    senders,                 \* every FileSender transfer started by send_file
    batches,                 \* every query batch: its deferred chain and response
    credits,                 \* wallet.add_expected_payment amounts, times 2^20
    stats,                   \* peer.update_stats counters
    upload_history,          \* blob_manager.add_blob_to_upload_history records
    nqueries,                \* handle_queries calls so far
    last_accepted            \* history: the rate of the last reply with accepted set

vars == <<blob_data_payment_rate, currently_uploading, read_handle, file_sender,
          blob_bytes_uploaded, blobs_requested, handles, senders, batches,
          credits, stats, upload_history, nqueries, last_accepted>>

\* ------------------------------------------------------------- responses
NoFields == [blob_hash |-> None, length |-> None]          \* response_fields = {}
EmptyResponse ==
    [available_blobs |-> None, negotiation |-> None,
     incoming_blob |-> None, error |-> None]               \* {}

Queries ==
    [avail : {None} \cup {Some(s) : s \in AvailRequests},
     offer : {None} \cup {Some(r) : r \in Rates},
     dl    : {None} \cup {Some(b) : b \in Blobs}]

NewBatch(q) ==
    [avail |-> q.avail, offer |-> q.offer, dl |-> q.dl,
     pc |-> "avail", response |-> EmptyResponse,
     availResult |-> None,     \* what completed_blobs fired with
     negRan |-> FALSE,         \* reply_to_offer ran
     negBlobs |-> None,        \* the blobs it handed to the strategy
     negAccepted |-> FALSE,    \* the strategy's answer
     dlRan |-> FALSE,          \* _reply_to_send_request ran
     dlRate |-> None,          \* the rate it read
     dlAccepted |-> None,      \* the last accepted rate when it ran
     gotBlob |-> FALSE,        \* blob_manager.get_blob was called
     opened |-> None,          \* the handle it opened
     recordAsked |-> FALSE,    \* add_blob_to_upload_history was called
     recorded |-> FALSE]       \* ... and its record was appended

\* a batch whose response future has fired
Completed_pc == {"done", "failed"}
InFlight(bs) == SelectSeq(bs, LAMBDA b : b.pc \notin Completed_pc)

\* ----------------------------------------------------- _get_available_blobs
completed_blobs(requested) == requested \cap Completed

\* ------------------------------------------------------- reply_to_offer
\* (a strategy that is never told which blobs are available)
OfferBlobs_none(request) == {}

\* blobs = request.get("available_blobs", [])
OfferBlobs(request) ==
    IF request.available_blobs = None THEN {} ELSE Val(request.available_blobs)

\* (a reply that sets the rate whatever the strategy answered)
reply_to_offer_rate_always(rate, offer, accepted) == Some(offer)

\* if reply.accepted: self.blob_data_payment_rate = reply.rate
reply_to_offer_rate(rate, offer, accepted) ==
    IF accepted THEN Some(offer) ELSE rate

reply_to_offer(request, offer, accepted) ==
    [request EXCEPT !.negotiation = Some([accepted |-> accepted, rate |-> offer])]

\* ----------------------------------------------- _reply_to_send_request
\* self._reply_to_send_request({}, incoming): a fresh dict, not the response r
DownloadStageInput(r) == EmptyResponse

\* (a rate check that lets every request through)
RateUnset_never(rate) == FALSE

\* if self.blob_data_payment_rate is None
RateUnset(rate) == rate = None

\* response['incoming_blob'] = response_fields, before the rate check
SendRequestStart(response) ==
    [response EXCEPT !.incoming_blob = Some(NoFields)]

\* The callbacks handle_queries chains after the availability stage: they
\* run back to back, as one step, once the response so far (r) is there.
RateAfterChain(b, rate, accepted) ==
    IF b.offer # None THEN reply_to_offer_rate(rate, Val(b.offer), accepted) ELSE rate

\* the last accepted rate once the chain of batch b has run
AcceptedAfterChain(b, last, accepted) ==
    IF b.offer # None /\ accepted THEN b.offer ELSE last

\* the download stage of batch b ran while the last accepted rate was last
ServicedAfter(b, last) == IF b.dlRan THEN [b EXCEPT !.dlAccepted = last] ELSE b

RunChain(b, r, rate, accepted) ==
    LET r1 == IF b.offer # None THEN reply_to_offer(r, Val(b.offer), accepted) ELSE r
        rate1 == RateAfterChain(b, rate, accepted)
        b1 == IF b.offer # None
              THEN [b EXCEPT !.negRan = TRUE, !.negBlobs = Some(OfferBlobs(r)),
                             !.negAccepted = accepted]
              ELSE b
        r2 == SendRequestStart(DownloadStageInput(r1))
        b2 == [b1 EXCEPT !.dlRan = TRUE, !.dlRate = rate1]
    IN  IF b.dl = None THEN [b1 EXCEPT !.pc = "done", !.response = r1]
        ELSE IF RateUnset(rate1)
        THEN [b2 EXCEPT !.pc = "done", !.response = [r2 EXCEPT !.error = Some("RATE_UNSET")]]
        ELSE [b2 EXCEPT !.pc = "get_blob", !.response = r2, !.gotBlob = TRUE]

\* ------------------------------------------------------------------ Init
Init ==
    /\ blob_data_payment_rate = None
    /\ currently_uploading = None
    /\ read_handle = None
    /\ file_sender = None
    /\ blob_bytes_uploaded = 0
    /\ blobs_requested = {}
    /\ handles = <<>>
    /\ senders = <<>>
    /\ batches = <<>>
    /\ credits = <<>>
    /\ stats = [blob_bytes_uploaded |-> 0, blobs_uploaded |-> 0]
    /\ upload_history = <<>>
    /\ nqueries = 0
    /\ last_accepted = None

\* -------------------------------------------------------- handle_queries
\* With 'requested_blobs' the chain waits for completed_blobs (a lookup that
\* has fired already is set_available taken right after this step); without
\* it the offer and download callbacks run inside handle_queries.  Batches
\* whose response has been delivered are forgotten when the next one arrives.
handle_queries(q) ==
    /\ nqueries < MaxBatches
    /\ nqueries + Len(senders) < MaxCalls
    /\ nqueries' = nqueries + 1
    /\ \E accepted \in BOOLEAN :
         /\ q.offer = None => accepted = FALSE
         /\ IF q.avail # None
            THEN /\ blobs_requested' = Val(q.avail)
                 /\ batches' = Append(InFlight(batches), NewBatch(q))
                 /\ accepted = FALSE
                 /\ UNCHANGED <<blob_data_payment_rate, last_accepted>>
            ELSE /\ last_accepted' = AcceptedAfterChain(NewBatch(q), last_accepted, accepted)
                 /\ batches' = Append(InFlight(batches),
                        ServicedAfter(RunChain(NewBatch(q), EmptyResponse,
                                               blob_data_payment_rate, accepted),
                                      last_accepted'))
                 /\ blob_data_payment_rate' =
                        RateAfterChain(NewBatch(q), blob_data_payment_rate, accepted)
                 /\ UNCHANGED blobs_requested
    /\ UNCHANGED <<currently_uploading, read_handle, file_sender, blob_bytes_uploaded,
                   handles, senders, credits, stats, upload_history>>

\* completed_blobs fires: set_available, then the rest of the chain
set_available(i) ==
    /\ batches[i].pc = "avail"
    /\ \E accepted \in BOOLEAN :
         /\ batches[i].offer = None => accepted = FALSE
         /\ LET available == completed_blobs(Val(batches[i].avail))
                b == [batches[i] EXCEPT !.availResult = Some(available)]
                r == [b.response EXCEPT !.available_blobs = Some(available)]
            IN  /\ last_accepted' = AcceptedAfterChain(b, last_accepted, accepted)
                /\ batches' = [batches EXCEPT ![i] =
                                  ServicedAfter(RunChain(b, r, blob_data_payment_rate,
                                                         accepted),
                                                last_accepted')]
                /\ blob_data_payment_rate' =
                       RateAfterChain(b, blob_data_payment_rate, accepted)
    /\ UNCHANGED <<currently_uploading, read_handle, file_sender, blob_bytes_uploaded,
                   blobs_requested, handles, senders, credits, stats, upload_history,
                   nqueries>>

\* completed_blobs fails: the callbacks chained after it are skipped
availability_failed(i) ==
    /\ batches[i].pc = "avail"
    /\ batches' = [batches EXCEPT ![i].pc = "failed"]
    /\ UNCHANGED <<blob_data_payment_rate, currently_uploading, read_handle, file_sender,
                   blob_bytes_uploaded, blobs_requested, handles, senders, credits,
                   stats, upload_history, nqueries, last_accepted>>

\* blob_manager.get_blob fails: the response future fails
get_blob_failed(i) ==
    /\ batches[i].pc = "get_blob"
    /\ batches' = [batches EXCEPT ![i].pc = "failed"]
    /\ UNCHANGED <<blob_data_payment_rate, currently_uploading, read_handle, file_sender,
                   blob_bytes_uploaded, blobs_requested, handles, senders, credits,
                   stats, upload_history, nqueries, last_accepted>>

\* ------------------------------------------------- open_blob_for_reading
BlobOutcomes == {"opened", "not_validated", "no_handle"}

\* cancelled: cancel_send, not set_not_uploading, closed the handle;
\* rate: the rate record_transaction is handed for the session of the handle
NewHandle(blob) ==
    [blob |-> blob, pos |-> 0, closes |-> 0, cancelled |-> FALSE, rate |-> None]

\* (a session that is given its blob but not its handle)
OpenedHandle_unset(h) == None

\* self.read_handle = read_handle
OpenedHandle(h) == Some(h)

IncomingBlob(blob) == Some([blob_hash |-> Some(blob), length |-> Some(Length[blob])])

\* get_blob fires with the blob: open_blob_for_reading, then record_transaction
\* calls add_blob_to_upload_history and waits for it
open_blob_for_reading(i) ==
    /\ batches[i].pc = "get_blob"
    /\ \E outcome \in BlobOutcomes :
         LET blob == Val(batches[i].dl)
         IN  IF outcome = "opened"
             THEN /\ handles' = Append(handles, [NewHandle(blob) EXCEPT
                                                    !.rate = batches[i].dlRate])
                  /\ currently_uploading' = Some(blob)
                  /\ read_handle' = OpenedHandle(Len(handles) + 1)
                  /\ batches' = [batches EXCEPT
                                   ![i].response.incoming_blob = IncomingBlob(blob),
                                   ![i].opened = Some(Len(handles) + 1),
                                   ![i].recordAsked = TRUE,
                                   ![i].pc = "record"]
             ELSE /\ batches' = [batches EXCEPT
                                   ![i].response.error = Some("BLOB_UNAVAILABLE"),
                                   ![i].recordAsked = TRUE,
                                   ![i].pc = "record"]
                  /\ UNCHANGED <<handles, currently_uploading, read_handle>>
    /\ UNCHANGED <<blob_data_payment_rate, file_sender, blob_bytes_uploaded,
                   blobs_requested, senders, credits, stats, upload_history, nqueries,
                   last_accepted>>

\* ---------------------------------------------------- record_transaction
\* add_blob_to_upload_history fires: the record is there, the response is returned
record_transaction(i) ==
    /\ batches[i].pc = "record"
    /\ upload_history' = Append(upload_history,
                                [blob |-> Val(batches[i].dl), rate |-> batches[i].dlRate,
                                 accepted |-> batches[i].dlAccepted])
    /\ batches' = [batches EXCEPT ![i].recorded = TRUE, ![i].pc = "done"]
    /\ UNCHANGED <<blob_data_payment_rate, currently_uploading, read_handle, file_sender,
                   blob_bytes_uploaded, blobs_requested, handles, senders, credits,
                   stats, nqueries, last_accepted>>

\* add_blob_to_upload_history fails: the response future fails
record_transaction_failed(i) ==
    /\ batches[i].pc = "record"
    /\ batches' = [batches EXCEPT ![i].pc = "failed"]
    /\ UNCHANGED <<blob_data_payment_rate, currently_uploading, read_handle, file_sender,
                   blob_bytes_uploaded, blobs_requested, handles, senders, credits,
                   stats, upload_history, nqueries, last_accepted>>

\* ------------------------------------------------------------ IBlobSender
\* (a close that releases nothing)
close_read_handle_noop(hs, rh) == hs

\* close_read_handle on whatever self.read_handle holds
close_read_handle(hs, rh) ==
    IF rh = None THEN hs ELSE [hs EXCEPT ![Val(rh)].closes = @ + 1]

\* state: how beginFileTransfer's deferred ended; result: what the deferred
\* that send_file returned has fired with
NewSender(h) == [handle |-> h, sent |-> 0, state |-> "streaming", result |-> "pending"]

\* (a poll that sends whether or not a blob was requested)
HasSession_always(cu) == TRUE

\* if self.currently_uploading is not None
HasSession(cu) == cu # None

\* what send_blob_if_requested returns
send_blob_if_requested_result ==
    IF ~HasSession(currently_uploading) THEN "True"
    ELSE IF read_handle = None THEN "AssertionError" ELSE "deferred"

\* send_blob_if_requested, and send_file up to beginFileTransfer
send_blob_if_requested ==
    /\ IF HasSession(currently_uploading)
       THEN /\ Len(senders) < MaxSends
            /\ nqueries + Len(senders) < MaxCalls
            /\ file_sender' = Some(Len(senders) + 1)
            /\ senders' = IF read_handle = None
                          THEN Append(senders, [NewSender(0) EXCEPT
                                                  !.state = "failed",
                                                  !.result = "AssertionError"])
                          ELSE Append(senders, NewSender(Val(read_handle)))
       ELSE UNCHANGED <<file_sender, senders>>
    /\ UNCHANGED <<blob_data_payment_rate, currently_uploading, read_handle,
                   blob_bytes_uploaded, blobs_requested, handles, batches, credits,
                   stats, upload_history, nqueries, last_accepted>>

\* (a cancel_send that answers as a poll without a session does)
cancel_send_result_true(err) == "True"

\* what cancel_send returns
cancel_send_result(err) == err

\* (a cancel_send that leaves the session fields as they are)
cancel_send_keeps(field) == field

\* self.read_handle = None; self.currently_uploading = None
cancel_send_clears(field) == None

cancel_send ==
    /\ handles' = IF currently_uploading # None
                  THEN [h \in DOMAIN handles |->
                          IF Some(h) = read_handle
                          THEN [close_read_handle(handles, read_handle)[h]
                                  EXCEPT !.cancelled = TRUE]
                          ELSE handles[h]]
                  ELSE handles
    /\ read_handle' = cancel_send_clears(read_handle)
    /\ currently_uploading' = cancel_send_clears(currently_uploading)
    /\ UNCHANGED <<blob_data_payment_rate, file_sender, blob_bytes_uploaded,
                   blobs_requested, senders, batches, credits, stats, upload_history,
                   nqueries, last_accepted>>

\* ------------------------------------------------------------- send_file
\* FileSender reads one chunk from the handle and hands it to count_bytes
count_bytes(t) ==
    /\ senders[t].state = "streaming"
    /\ LET h == senders[t].handle
       IN  /\ handles[h].closes = 0
           /\ handles[h].pos < Length[handles[h].blob]
           /\ handles' = [handles EXCEPT ![h].pos = @ + 1]
    /\ senders' = [senders EXCEPT ![t].sent = @ + 1]
    /\ blob_bytes_uploaded' = blob_bytes_uploaded + 1
    /\ stats' = [stats EXCEPT !.blob_bytes_uploaded = @ + 1]
    /\ UNCHANGED <<blob_data_payment_rate, currently_uploading, read_handle, file_sender,
                   blobs_requested, batches, credits, upload_history, nqueries,
                   last_accepted>>

\* (set_expected_payment chained with addBoth)
RunsSetExpectedPayment_always(ok) == TRUE

\* inner_d.addCallback(lambda _: set_expected_payment()): on success only
RunsSetExpectedPayment(ok) == ok

\* the amount handed to wallet.add_expected_payment, times 2^20
ExpectedPayment(blob, rate) == Length[blob] * rate

\* what inner_d holds after addCallback(lambda _: set_expected_payment()):
\* a failure passes by, an exception raised in the callback becomes one
AfterSetExpectedPayment(ok, raises) == IF ok /\ ~raises THEN "None" ELSE "failure"

\* (a set_not_uploading that hands its reason on)
set_not_uploading_passes(reason) == reason

\* addBoth(set_not_uploading): it has no return statement
set_not_uploading_result(reason) == "None"

\* the callbacks of inner_d: set_expected_payment, then set_not_uploading
Finalize(t, ok) ==
    LET pay == RunsSetExpectedPayment(ok)
        bill == pay /\ blob_bytes_uploaded # 0 /\ blob_data_payment_rate # None
        raises == bill /\ currently_uploading = None
        credited == bill /\ ~raises
        counted == pay /\ ~raises
        close == currently_uploading # None
    IN  /\ credits' = IF credited
                      THEN Append(credits, ExpectedPayment(Val(currently_uploading),
                                                           Val(blob_data_payment_rate)))
                      ELSE credits
        /\ blob_bytes_uploaded' = IF credited THEN 0 ELSE blob_bytes_uploaded
        /\ stats' = IF counted THEN [stats EXCEPT !.blobs_uploaded = @ + 1] ELSE stats
        /\ handles' = IF close THEN close_read_handle(handles, read_handle) ELSE handles
        /\ read_handle' = IF close THEN None ELSE read_handle
        /\ currently_uploading' = None
        /\ file_sender' = None
        /\ senders' = [senders EXCEPT
                          ![t].state = IF ok THEN "succeeded" ELSE "failed",
                          ![t].result = set_not_uploading_result(
                                            AfterSetExpectedPayment(ok, raises))]
        /\ UNCHANGED <<blob_data_payment_rate, blobs_requested, batches,
                       upload_history, nqueries, last_accepted>>

\* beginFileTransfer's deferred fires: the read at the end of the handle
\* returned nothing (a read of a closed handle raises instead)
transfer_succeeds(t) ==
    /\ senders[t].state = "streaming"
    /\ LET h == senders[t].handle
       IN  handles[h].closes = 0 /\ handles[h].pos = Length[handles[h].blob]
    /\ Finalize(t, TRUE)

\* beginFileTransfer's deferred fails: the consumer stopped the producer
transfer_fails(t) ==
    /\ senders[t].state = "streaming"
    /\ Finalize(t, FALSE)

\* ------------------------------------------------------------------ Next
Next ==
    \/ \E q \in Queries : handle_queries(q)
    \/ \E i \in DOMAIN batches : set_available(i)
    \/ \E i \in DOMAIN batches : availability_failed(i)
    \/ \E i \in DOMAIN batches : get_blob_failed(i)
    \/ \E i \in DOMAIN batches : open_blob_for_reading(i)
    \/ \E i \in DOMAIN batches : record_transaction(i)
    \/ \E i \in DOMAIN batches : record_transaction_failed(i)
    \/ send_blob_if_requested
    \/ cancel_send
    \/ \E t \in DOMAIN senders : count_bytes(t)
    \/ \E t \in DOMAIN senders : transfer_succeeds(t)
    \/ \E t \in DOMAIN senders : transfer_fails(t)

Spec == Init /\ [][Next]_vars

\* =============================================================== claims
OpenHandles == {h \in DOMAIN handles : handles[h].closes = 0}
Streaming == {t \in DOMAIN senders : senders[t].state = "streaming"}
Ends(t) == senders[t].state = "streaming" /\ senders'[t].state # "streaming"
LastCredit == credits'[Len(credits')]

\* C1: at most one read handle is open (acquired and not yet closed) at any
\* time: download servicing never opens a handle while a session is active.
C1_SingleSession == Cardinality(OpenHandles) <= 1

\* C2: no read handle is closed twice, and whenever there is no active
\* session and no transfer in progress every handle that was opened has been
\* closed (opens = closes).
C2_HandleBalance ==
    /\ \A h \in DOMAIN handles : handles[h].closes <= 1
    /\ (currently_uploading = None /\ Streaming = {}) => OpenHandles = {}

\* C3: a download request processed while the rate is unset ends with error
\* RATE_UNSET without get_blob, without a handle, a session or an
\* upload-history record; a session exists only while the rate is set.
C3_RateGate ==
    /\ \A i \in DOMAIN batches :
         LET b == batches[i]
         IN  /\ (b.dlRan /\ b.dlRate = None) =>
                   /\ b.pc = "done"
                   /\ b.response.error = Some("RATE_UNSET")
                   /\ ~b.gotBlob /\ b.opened = None
                   /\ ~b.recordAsked /\ ~b.recorded
             /\ b.opened # None => b.dlRate # None
    /\ currently_uploading # None => blob_data_payment_rate # None
    /\ \A k \in DOMAIN upload_history : upload_history[k].rate # None

\* C3 witness: a download request was processed with the rate unset, after an
\* offer of the same batch was rejected
C3_Witness ==
    \E i \in DOMAIN batches :
        /\ batches[i].dlRan /\ batches[i].dlRate = None
        /\ batches[i].negRan /\ batches[i].pc = "done"

\* C4: a transfer that completes successfully after N > 0 bytes at rate r
\* registers exactly one credit, of N * r (times 2^-20), and leaves the byte
\* counter at 0.
C4_BillingCorrect ==
    [][\A t \in DOMAIN senders :
          (Ends(t) /\ senders'[t].state = "succeeded" /\ senders[t].sent > 0
             /\ blob_data_payment_rate # None) =>
            /\ Len(credits') = Len(credits) + 1
            /\ LastCredit = senders[t].sent * Val(blob_data_payment_rate)
            /\ blob_bytes_uploaded' = 0]_vars

C7_RecordOnlyOnSession ==
    \A i \in DOMAIN batches : batches[i].recorded => batches[i].opened # None

\* C8: in one batch the negotiation runs only after the availability lookup
\* has fired and is handed its result, and download servicing runs only
\* after both and reads the rate the negotiation left.
C8_StageOrder ==
    \A i \in DOMAIN batches :
        LET b == batches[i]
        IN  /\ (b.negRan /\ b.avail # None) =>
                  (b.availResult # None /\ b.negBlobs = b.availResult)
            /\ (b.negRan /\ b.avail = None) => b.negBlobs = Some({})
            /\ (b.dlRan /\ b.avail # None) => b.availResult # None
            /\ (b.dlRan /\ b.offer # None) =>
                  (b.negRan /\ (b.negAccepted => b.dlRate = b.offer))
            /\ (b.pc = "avail") => (~b.negRan /\ ~b.dlRan)

\* C8 witness: a batch with all three keys ran its stages, its offer being
\* accepted, while another batch was in flight
C8_Witness ==
    \E i, j \in DOMAIN batches :
        /\ i # j /\ batches[j].pc \in {"avail", "get_blob", "record"}
        /\ batches[i].avail # None /\ batches[i].availResult # None
        /\ batches[i].availResult # Some({})
        /\ batches[i].negRan /\ batches[i].negAccepted /\ batches[i].dlRan

\* C9: the response of a batch that succeeds has available_blobs iff the
\* batch had an availability request, and the negotiation fields iff it had
\* a rate offer.
C9_AccumulatedResponse ==
    \A i \in DOMAIN batches :
        batches[i].pc = "done" =>
            /\ batches[i].avail # None <=> batches[i].response.available_blobs # None
            /\ batches[i].offer # None <=> batches[i].response.negotiation # None

\* C10: the response to a download request has incoming_blob exactly when a
\* session was created and error exactly when not, never both.
C10_IncomingXorError ==
    \A i \in DOMAIN batches :
        (batches[i].pc = "done" /\ batches[i].dl # None) =>
            /\ batches[i].response.incoming_blob # None <=> batches[i].opened # None
            /\ batches[i].response.error # None <=> batches[i].opened = None
            /\ ~(batches[i].response.incoming_blob # None /\ batches[i].response.error # None)

\* C11: the negotiated rate is the rate of the most recently accepted offer,
\* or unset while none was accepted; a download request is serviced at that
\* rate, and every upload-history record carries the rate that was the last
\* accepted one when its request was serviced.
C11_RateIsLastAccepted ==
    /\ blob_data_payment_rate = last_accepted
    /\ \A i \in DOMAIN batches :
         batches[i].dlRan => batches[i].dlRate = batches[i].dlAccepted
    /\ \A k \in DOMAIN upload_history :
         upload_history[k].rate = upload_history[k].accepted

\* C11 witness: after an accepted offer, a batch whose offer of another rate
\* was rejected had its download request serviced and recorded
C11_Witness ==
    \E i \in DOMAIN batches :
        /\ batches[i].negRan /\ ~batches[i].negAccepted
        /\ batches[i].dlRate # None /\ batches[i].dlRate # batches[i].offer
        /\ batches[i].recorded
        /\ upload_history[Len(upload_history)].rate = last_accepted

\* C12: when cancel_send and set_not_uploading both run for a session, in
\* either order and with cancel_send run any number of times,
\* close_read_handle is called exactly once on the session's handle and the
\* session ends cleared: no handle is ever closed twice, a closed handle is
\* no longer the handler's read_handle, and a handle that cancel_send closed
\* has been closed exactly once when its transfer has ended.
C12_ReleasedOnce ==
    /\ \A h \in DOMAIN handles :
         /\ handles[h].closes <= 1
         /\ handles[h].closes = 1 => read_handle # Some(h)
         /\ handles[h].cancelled => handles[h].closes = 1
    /\ \A t \in DOMAIN senders :
         (senders[t].state # "streaming" /\ handles[senders[t].handle].cancelled) =>
            handles[senders[t].handle].closes = 1

\* C12 witness: cancel_send closed the handle of a streaming transfer, the
\* transfer then ended in set_not_uploading, and no session is left
C12_Witness ==
    \E t \in DOMAIN senders :
        /\ senders[t].state = "failed"
        /\ handles[senders[t].handle].cancelled
        /\ handles[senders[t].handle].closes = 1
        /\ currently_uploading = None /\ read_handle = None /\ file_sender = None

\* C13: the deferred send_blob_if_requested returns for a session never
\* fires with a failure: whether the transfer succeeds, fails mid-stream or
\* was cancelled while streaming, set_not_uploading absorbs the failure.
C13_FailureAbsorbed ==
    \A t \in DOMAIN senders :
        /\ senders[t].result \in {"pending", "None"}
        /\ senders[t].state # "streaming" => senders[t].result = "None"

\* C13 witness: a transfer has failed mid-stream (cancelled or not) and the
\* deferred of its send_file call has fired with None
C13_Witness ==
    \E t \in DOMAIN senders :
        /\ senders[t].state = "failed" /\ senders[t].result = "None"
        /\ senders[t].sent > 0
        /\ senders[t].sent < Length[handles[senders[t].handle].blob]

\* C14: cancel_send returns its argument unchanged; without a session it
\* closes no handle and changes nothing; after any cancel_send no session is
\* left and at most the session's own handle was closed, so a second call
\* right after it changes nothing.
C14_CancelIdempotent ==
    [][cancel_send =>
          /\ \A err \in Errs : cancel_send_result(err) = err
          /\ currently_uploading = None => UNCHANGED vars
          /\ currently_uploading' = None /\ read_handle' = None
          /\ \A h \in DOMAIN handles :
                handles'[h].closes =
                    IF currently_uploading # None /\ read_handle = Some(h)
                    THEN handles[h].closes + 1 ELSE handles[h].closes
          /\ UNCHANGED <<blob_data_payment_rate, file_sender, blob_bytes_uploaded,
                         senders, batches, credits, stats, upload_history>>]_vars

\* C14 witness: cancel_send has closed the handle of a session and no
\* session has been created since, so the next cancel_send is a second one
C14_Witness ==
    \E h \in DOMAIN handles :
        /\ handles[h].cancelled /\ h = Len(handles)
        /\ currently_uploading = None /\ read_handle = None

\* C15: polled without a session, send_blob_if_requested returns an
\* already-succeeded deferred holding True, starts no transfer and leaves the
\* rate, the session fields, the byte counter, the peer's stats, the credits
\* and the upload history as they are, however often it is polled.
C15_PollWithoutSession ==
    [][(send_blob_if_requested /\ currently_uploading = None) =>
          /\ send_blob_if_requested_result = "True"
          /\ senders' = senders /\ file_sender' = file_sender
          /\ UNCHANGED <<blob_data_payment_rate, currently_uploading, read_handle,
                         blob_bytes_uploaded, stats, credits, upload_history,
                         handles, batches>>]_vars

\* C15 witness: no session is left after a transfer that was paid for, the
\* rate being set and the history not empty: a poll finds nothing to send
C15_Witness ==
    /\ currently_uploading = None /\ read_handle = None
    /\ blob_data_payment_rate # None
    /\ Len(credits) > 0 /\ Len(upload_history) > 0
    /\ \E t \in DOMAIN senders : senders[t].state = "succeeded"

\* C16: whenever a session is created its byte counter is 0, so bytes
\* counted during an earlier failed or cancelled transfer never carry over
\* into a later session (stated for a session created while no other session
\* is active and no transfer is streaming).
C16_CounterStartsAtZero ==
    [][(Len(handles') > Len(handles) /\ currently_uploading = None /\ Streaming = {}) =>
          blob_bytes_uploaded' = 0]_vars

\* C17: at most one FileSender transfer is in progress at any time: a poll
\* that arrives while a transfer is streaming starts no second transfer on
\* the session's read handle.
C17_SingleTransfer ==
    /\ Cardinality(Streaming) <= 1
    /\ \A t, u \in Streaming : senders[t].handle = senders[u].handle => t = u

\* C18: the rate that enters a transfer's expected-payment credit is the
\* rate that was handed to the upload history when the transfer's download
\* request was serviced, even if an offer was accepted in between.
C18_CreditAtRecordedRate ==
    [][\A t \in DOMAIN senders :
          (Ends(t) /\ Len(credits') = Len(credits) + 1
             /\ read_handle = Some(senders[t].handle)) =>
            LastCredit = ExpectedPayment(handles[senders[t].handle].blob,
                                         Val(handles[senders[t].handle].rate))]_vars

\* C19: when the response of a batch has failed (get_blob failed, or the
\* upload-history append failed after the blob was opened), no session the
\* batch created is active and no handle the batch opened is open.
C19_FailedBatchLeavesNothing ==
    \A i \in DOMAIN batches :
        (batches[i].pc = "failed" /\ batches[i].opened # None) =>
            /\ read_handle # batches[i].opened
            /\ handles[Val(batches[i].opened)].closes > 0

\* C20: currently_uploading is set if and only if read_handle is set, so
\* the assertion of start_transfer (read_handle is not None) never fails
\* when send_blob_if_requested starts a transfer.
C20_SessionFieldsTogether ==
    /\ currently_uploading = None <=> read_handle = None
    /\ \A t \in DOMAIN senders : senders[t].result # "AssertionError"
    /\ send_blob_if_requested_result # "AssertionError"

\* C20 witness: after cancel_send ended one session a later download request
\* created another, and send_blob_if_requested started a transfer on its handle
C20_Witness ==
    \E t \in Streaming, h \in DOMAIN handles :
        /\ handles[h].cancelled /\ h # senders[t].handle
        /\ currently_uploading # None
        /\ read_handle = Some(senders[t].handle)

====
